---- MODULE Spec2Model ----
(***************************************************************************)
(* Rules engine, move execution, history/undo and automated opponent of    *)
(* the chess3D game (classes ChessPiece, Board and Game).                  *)
(* Rendering, highlighting and DOM updates are left out: they never feed   *)
(* back into the state modelled here.                                      *)
(***************************************************************************)
EXTENDS Integers, Sequences, FiniteSets, TLC

(***************************************************************************)
(* Bounds of the exploration.                                              *)
(***************************************************************************)
\* number of squares (a prefix of ClickOrder) the human players click on
MaxClick == 6
\* number of moves, human or computer, played in one run of a new game
MaxPlies == 3
\* number of moves played in one run that starts from a position of Midgames
MidgamePlies == 1
\* at most this many deferred makeComputerMove callbacks are pending
MaxTimers == 1
\* the undo button is pressed at most this many times in one run
MaxUndo == 1
\* at most this many pieces besides the two kings stand on a board that
\* hasInsufficientMaterial is applied to on its own
MaxExtras == 3
\* at most this many of the four squares ahead of a pawn hold a piece on a
\* board that isValidMove is applied to on its own
MaxNeighbours == 3

(***************************************************************************)
(* Squares and pieces.                                                     *)
(***************************************************************************)
Coord == 0..7
Sq(x, y) == [x |-> x, y |-> y]
Squares == {Sq(x, y) : x \in Coord, y \in Coord}
null == [x |-> -1, y |-> -1]
OffBoard == [x |-> -1, y |-> -1]
Abs(n) == IF n < 0 THEN -n ELSE n
Min2(a, b) == IF a < b THEN a ELSE b
Max2(a, b) == IF a > b THEN a ELSE b
Opponent(c) == IF c = "white" THEN "black" ELSE "white"

ChessPiece(type, color, position) ==
    [type |-> type, color |-> color, position |-> position, hasMoved |-> FALSE]
NoPiece == [type |-> "none", color |-> "none", position |-> null, hasMoved |-> FALSE]

RemoveAt(s, i) == SubSeq(s, 1, i - 1) \o SubSeq(s, i + 1, Len(s))
InsertAt(s, i, e) == SubSeq(s, 1, i - 1) \o <<e>> \o SubSeq(s, i, Len(s))

(***************************************************************************)
(* Board queries.  A board b is [pieces, lastEnPassantPosition].           *)
(***************************************************************************)
RECURSIVE FindAt(_, _, _)
FindAt(ps, pos, i) ==
    IF i > Len(ps) THEN 0
    ELSE IF ps[i].position = pos THEN i
    ELSE FindAt(ps, pos, i + 1)

\* index of the first piece of the list on the square, 0 for none
getPieceAt(ps, pos) == FindAt(ps, pos, 1)
Occupied(ps, pos) == \E i \in 1..Len(ps) : ps[i].position = pos

(***************************************************************************)
(* ChessPiece move shapes.                                                 *)
(***************************************************************************)
\* isValidPawnMove without its test of the square a double step passes over
isValidPawnMoveJump(p, newPosition, b) ==
    LET dx == newPosition.x - p.position.x
        dy == newPosition.y - p.position.y
        direction == IF p.color = "white" THEN -1 ELSE 1
        t == getPieceAt(b.pieces, newPosition)
    IN  IF dx = 0 /\ dy = direction THEN t = 0
        ELSE IF dx = 0 /\ dy = 2 * direction /\ ~p.hasMoved THEN t = 0
        ELSE IF Abs(dx) = 1 /\ dy = direction
             THEN IF t # 0 /\ b.pieces[t].color # p.color THEN TRUE
                  ELSE IF b.lastEnPassantPosition # null
                          /\ newPosition = b.lastEnPassantPosition
                       THEN t = 0
                       ELSE FALSE
        ELSE FALSE

isValidPawnMove(p, newPosition, b) ==
    LET dx == newPosition.x - p.position.x
        dy == newPosition.y - p.position.y
        direction == IF p.color = "white" THEN -1 ELSE 1
        t == getPieceAt(b.pieces, newPosition)
    IN  IF dx = 0 /\ dy = direction THEN t = 0
        ELSE IF dx = 0 /\ dy = 2 * direction /\ ~p.hasMoved
             THEN ~Occupied(b.pieces, Sq(p.position.x, p.position.y + direction)) /\ t = 0
        ELSE IF Abs(dx) = 1 /\ dy = direction
             THEN IF t # 0 /\ b.pieces[t].color # p.color THEN TRUE
                  ELSE IF b.lastEnPassantPosition # null
                          /\ newPosition = b.lastEnPassantPosition
                       THEN t = 0
                       ELSE FALSE
        ELSE FALSE

\* The path loops of the rook and the bishop stop at the target; with
\* dx = dy = 0 they walk off the board towards -1 and never end unless a
\* piece blocks them: that case is rendered as a blocked path.
isValidRookMove(p, newPosition, b) ==
    LET dx == newPosition.x - p.position.x
        dy == newPosition.y - p.position.y
    IN  IF dx # 0 /\ dy # 0 THEN FALSE
        ELSE IF dx = 0 /\ dy = 0 THEN FALSE
        ELSE IF dx = 0
             THEN \A y \in Coord :
                     (Min2(p.position.y, newPosition.y) < y
                        /\ y < Max2(p.position.y, newPosition.y))
                     => ~Occupied(b.pieces, Sq(p.position.x, y))
             ELSE \A x \in Coord :
                     (Min2(p.position.x, newPosition.x) < x
                        /\ x < Max2(p.position.x, newPosition.x))
                     => ~Occupied(b.pieces, Sq(x, p.position.y))

isValidKnightMove(p, newPosition, b) ==
    LET dx == Abs(newPosition.x - p.position.x)
        dy == Abs(newPosition.y - p.position.y)
    IN  (dx = 1 /\ dy = 2) \/ (dx = 2 /\ dy = 1)

isValidBishopMove(p, newPosition, b) ==
    LET dx == newPosition.x - p.position.x
        dy == newPosition.y - p.position.y
        stepX == IF dx > 0 THEN 1 ELSE -1
        stepY == IF dy > 0 THEN 1 ELSE -1
    IN  IF Abs(dx) # Abs(dy) THEN FALSE
        ELSE IF dx = 0 THEN FALSE
        ELSE \A k \in 1..(Abs(dx) - 1) :
                ~Occupied(b.pieces, Sq(p.position.x + k * stepX, p.position.y + k * stepY))

isValidQueenMove(p, newPosition, b) ==
    LET dx == newPosition.x - p.position.x
        dy == newPosition.y - p.position.y
    IN  IF dx = 0 \/ dy = 0 THEN isValidRookMove(p, newPosition, b)
        ELSE IF Abs(dx) = Abs(dy) THEN isValidBishopMove(p, newPosition, b)
        ELSE FALSE

\* dx is already an absolute value when the rook's file is chosen, so the
\* rook is always looked for on file 7.
isValidKingMove(p, newPosition, b) ==
    LET dx == Abs(newPosition.x - p.position.x)
        dy == Abs(newPosition.y - p.position.y)
        rookX == IF dx > 0 THEN 7 ELSE 0
        rookY == p.position.y
        pathStart == Min2(p.position.x, rookX) + 1
        pathEnd == Max2(p.position.x, rookX)
    IN  IF dx <= 1 /\ dy <= 1 THEN TRUE
        ELSE IF ~p.hasMoved /\ dy = 0 /\ Abs(dx) = 2
             THEN /\ \E i \in 1..Len(b.pieces) :
                        /\ b.pieces[i].type = "rook"
                        /\ b.pieces[i].color = p.color
                        /\ b.pieces[i].position = Sq(rookX, rookY)
                        /\ ~b.pieces[i].hasMoved
                  /\ \A x \in pathStart..(pathEnd - 1) :
                        ~Occupied(b.pieces, Sq(x, p.position.y))
        ELSE FALSE

isValidMove(p, newPosition, b) ==
    LET t == getPieceAt(b.pieces, newPosition)
    IN  IF newPosition.x < 0 \/ newPosition.x > 7
           \/ newPosition.y < 0 \/ newPosition.y > 7 THEN FALSE
        ELSE IF t # 0 /\ b.pieces[t].color = p.color THEN FALSE
        ELSE CASE p.type = "pawn" -> isValidPawnMove(p, newPosition, b)
               [] p.type = "rook" -> isValidRookMove(p, newPosition, b)
               [] p.type = "knight" -> isValidKnightMove(p, newPosition, b)
               [] p.type = "bishop" -> isValidBishopMove(p, newPosition, b)
               [] p.type = "queen" -> isValidQueenMove(p, newPosition, b)
               [] p.type = "king" -> isValidKingMove(p, newPosition, b)
               [] OTHER -> FALSE

(***************************************************************************)
(* Game: check detection and the king-safety filter.                       *)
(***************************************************************************)
Board(g) == [pieces |-> g.pieces, lastEnPassantPosition |-> g.lastEnPassantPosition]

isKingInCheck(b, kingColor) ==
    LET kings == {i \in 1..Len(b.pieces) :
                     b.pieces[i].type = "king" /\ b.pieces[i].color = kingColor}
    IN  IF kings = {} THEN FALSE
        ELSE LET king == CHOOSE i \in kings : \A j \in kings : i <= j
             IN  \E i \in 1..Len(b.pieces) :
                    /\ b.pieces[i].color = Opponent(kingColor)
                    /\ isValidMove(b.pieces[i], b.pieces[king].position, b)

\* The board on which wouldMoveLeaveKingInCheck evaluates isKingInCheck:
\* the piece stands on the target and the piece found there is spliced out.
SimulatedBoard(b, i, newPosition) ==
    LET capturedPieceIndex == getPieceAt(b.pieces, newPosition)
        moved == [b.pieces EXCEPT ![i].position = newPosition]
    IN  [b EXCEPT !.pieces = IF capturedPieceIndex # 0
                             THEN RemoveAt(moved, capturedPieceIndex)
                             ELSE moved]

wouldMoveLeaveKingInCheck(b, i, newPosition) ==
    isKingInCheck(SimulatedBoard(b, i, newPosition), b.pieces[i].color)

\* The piece list wouldMoveLeaveKingInCheck leaves behind: position and
\* hasMoved of the moving piece are written back and the spliced-out piece
\* is spliced in again at the index it was found at.
RestoredPiecesAtEnd(b, i, newPosition) ==
    LET c == getPieceAt(b.pieces, newPosition)
        sim == SimulatedBoard(b, i, newPosition).pieces
        idx == IF c = 0 \/ i < c THEN i ELSE IF i > c THEN i - 1 ELSE 0
        back == IF idx # 0
                THEN [sim EXCEPT ![idx].position = b.pieces[i].position,
                                 ![idx].hasMoved = b.pieces[i].hasMoved]
                ELSE sim
    IN  IF c # 0 THEN Append(back, b.pieces[c]) ELSE back

RestoredPieces(b, i, newPosition) ==
    LET c == getPieceAt(b.pieces, newPosition)
        sim == SimulatedBoard(b, i, newPosition).pieces
        idx == IF c = 0 \/ i < c THEN i ELSE IF i > c THEN i - 1 ELSE 0
        back == IF idx # 0
                THEN [sim EXCEPT ![idx].position = b.pieces[i].position,
                                 ![idx].hasMoved = b.pieces[i].hasMoved]
                ELSE sim
    IN  IF c # 0 THEN InsertAt(back, c, b.pieces[c]) ELSE back

\* isInCheckmate without its search for a move that escapes the check
isInCheckmateNoEscape(b, kingColor) ==
    isKingInCheck(b, kingColor)

isInCheckmate(b, kingColor) ==
    IF ~isKingInCheck(b, kingColor) THEN FALSE
    ELSE ~\E i \in 1..Len(b.pieces) :
            /\ b.pieces[i].color = kingColor
            /\ \E newPosition \in Squares :
                  /\ newPosition # b.pieces[i].position
                  /\ isValidMove(b.pieces[i], newPosition, b)
                  /\ ~wouldMoveLeaveKingInCheck(b, i, newPosition)

\* isInStalemate without its test of isKingInCheck
isInStalemateUnchecked(b, kingColor) ==
    ~\E i \in 1..Len(b.pieces) :
        /\ b.pieces[i].color = kingColor
        /\ \E newPosition \in Squares :
              /\ newPosition # b.pieces[i].position
              /\ isValidMove(b.pieces[i], newPosition, b)
              /\ ~wouldMoveLeaveKingInCheck(b, i, newPosition)

isInStalemate(b, kingColor) ==
    IF isKingInCheck(b, kingColor) THEN FALSE
    ELSE ~\E i \in 1..Len(b.pieces) :
            /\ b.pieces[i].color = kingColor
            /\ \E newPosition \in Squares :
                  /\ newPosition # b.pieces[i].position
                  /\ isValidMove(b.pieces[i], newPosition, b)
                  /\ ~wouldMoveLeaveKingInCheck(b, i, newPosition)

\* index of the first piece of the type and color in the list, 0 for none
RECURSIVE FindPiece(_, _, _, _)
FindPiece(ps, type, color, i) ==
    IF i > Len(ps) THEN 0
    ELSE IF ps[i].type = type /\ ps[i].color = color THEN i
    ELSE FindPiece(ps, type, color, i + 1)

\* hasInsufficientMaterial that leaves out the squares of the two bishops
hasInsufficientMaterialAnyBishops(b) ==
    LET whitePieces == SelectSeq(b.pieces, LAMBDA p : p.color = "white" /\ p.type # "king")
        blackPieces == SelectSeq(b.pieces, LAMBDA p : p.color # "white" /\ p.type # "king")
    IN  IF Len(b.pieces) > 4 THEN FALSE
        ELSE IF Len(whitePieces) = 0 /\ Len(blackPieces) = 0 THEN TRUE
        ELSE IF Len(whitePieces) + Len(blackPieces) = 1
             THEN LET singlePiece == (whitePieces \o blackPieces)[1].type
                  IN  singlePiece \in {"knight", "bishop"}
        ELSE /\ Len(whitePieces) = 1 /\ Len(blackPieces) = 1
             /\ whitePieces[1].type = "bishop" /\ blackPieces[1].type = "bishop"

hasInsufficientMaterial(b) ==
    LET whitePieces == SelectSeq(b.pieces, LAMBDA p : p.color = "white" /\ p.type # "king")
        blackPieces == SelectSeq(b.pieces, LAMBDA p : p.color # "white" /\ p.type # "king")
        whiteBishop == b.pieces[FindPiece(b.pieces, "bishop", "white", 1)]
        blackBishop == b.pieces[FindPiece(b.pieces, "bishop", "black", 1)]
        whiteBishopOnLight == (whiteBishop.position.x + whiteBishop.position.y) % 2 = 0
        blackBishopOnLight == (blackBishop.position.x + blackBishop.position.y) % 2 = 0
    IN  IF Len(b.pieces) > 4 THEN FALSE
        ELSE IF Len(whitePieces) = 0 /\ Len(blackPieces) = 0 THEN TRUE
        ELSE IF /\ \/ Len(whitePieces) = 1 /\ Len(blackPieces) = 0
                   \/ Len(whitePieces) = 0 /\ Len(blackPieces) = 1
                /\ (whitePieces \o blackPieces)[1].type \in {"knight", "bishop"}
             THEN TRUE
        ELSE IF /\ Len(whitePieces) = 1 /\ Len(blackPieces) = 1
                /\ whitePieces[1].type = "bishop" /\ blackPieces[1].type = "bishop"
                /\ whiteBishopOnLight = blackBishopOnLight
             THEN TRUE
        ELSE FALSE

endGame(g) == [g EXCEPT !.gameOver = TRUE]

checkGameOver(g) ==
    LET b == Board(g)
        whiteKingExists == \E i \in 1..Len(g.pieces) :
            g.pieces[i].type = "king" /\ g.pieces[i].color = "white"
        blackKingExists == \E i \in 1..Len(g.pieces) :
            g.pieces[i].type = "king" /\ g.pieces[i].color = "black"
    IN  IF ~whiteKingExists \/ ~blackKingExists THEN endGame(g)
        ELSE IF isInCheckmate(b, "white") \/ isInCheckmate(b, "black") THEN endGame(g)
        ELSE IF isInStalemate(b, g.currentPlayer) THEN endGame(g)
        ELSE g

computerColor == "black"

\* updateStatus without its setTimeout
updateStatusNoTimer(g) ==
    LET b == Board(g)
        computersTurn == g.gameMode = "computer" /\ g.currentPlayer = "black"
                         /\ ~g.gameOver
    IN  IF computersTurn /\ g.isComputerThinking THEN g
        ELSE IF isInCheckmate(b, g.currentPlayer) THEN endGame(g)
        ELSE IF isInStalemate(b, g.currentPlayer) THEN endGame(g)
        ELSE IF computersTurn
             THEN [g EXCEPT !.isComputerThinking = TRUE]
        ELSE g

\* updateStatus: the check flags and the status text are display only; what
\* is kept is the end-of-game test and the 1000 ms timer for the computer.
updateStatus(g) ==
    LET b == Board(g)
        computersTurn == g.gameMode = "computer" /\ g.currentPlayer = computerColor
                         /\ ~g.gameOver
    IN  IF computersTurn /\ g.isComputerThinking THEN g
        ELSE IF isInCheckmate(b, g.currentPlayer) THEN endGame(g)
        ELSE IF isInStalemate(b, g.currentPlayer) THEN endGame(g)
        ELSE IF computersTurn
             THEN [g EXCEPT !.isComputerThinking = TRUE, !.timers = g.timers + 1]
        ELSE g

(***************************************************************************)
(* Board.movePiece, Game.recordMove and Board.handleSquareClick.           *)
(* A game g is the record of all the fields of Game and Board below.       *)
(***************************************************************************)
removePiece(ps, i) == IF i # 0 THEN RemoveAt(ps, i) ELSE ps

\* index of piece i once piece c has been spliced out of the list
Shift(i, c) == IF c # 0 /\ c < i THEN i - 1 ELSE i

movePiece(b, i, newPosition) ==
    LET piece == b.pieces[i]
        previousEnPassantPosition == b.lastEnPassantPosition
        twoSquares == piece.type = "pawn"
                      /\ Abs(newPosition.y - piece.position.y) = 2
        newEnPassant ==
            IF twoSquares
            THEN Sq(newPosition.x, (piece.position.y + newPosition.y) \div 2)
            ELSE null
        enPassant == /\ piece.type = "pawn"
                     /\ piece.position.x # newPosition.x
                     /\ getPieceAt(b.pieces, newPosition) = 0
                     /\ previousEnPassantPosition # null
                     /\ newPosition = previousEnPassantPosition
        c == IF enPassant
             THEN getPieceAt(b.pieces, Sq(newPosition.x, piece.position.y))
             ELSE 0
        captured == IF c # 0 /\ b.pieces[c].type = "pawn"
                       /\ b.pieces[c].color # piece.color
                    THEN c ELSE 0
        placed == [b.pieces EXCEPT ![i].position = newPosition,
                                   ![i].hasMoved = TRUE]
    IN  [pieces |-> removePiece(placed, captured),
         lastEnPassantPosition |-> newEnPassant]

recordMove(g, piece, fromPosition, toPosition, capturedPiece) ==
    [g EXCEPT !.moveHistory = Append(g.moveHistory,
        [piece |-> [type |-> piece.type, color |-> piece.color,
                    hasMoved |-> piece.hasMoved, position |-> fromPosition],
         fromPosition |-> fromPosition,
         toPosition |-> toPosition,
         capturedPiece |-> capturedPiece,
         previousPlayer |-> g.currentPlayer,
         enPassantPosition |-> g.lastEnPassantPosition])]

WithBoard(g, b) ==
    [g EXCEPT !.pieces = b.pieces, !.lastEnPassantPosition = b.lastEnPassantPosition]

\* capturedPieces only ever has its entries' type and color read
Taken(piece) == [type |-> piece.type, color |-> piece.color]

\* the move branch of handleSquareClick up to Board.movePiece: the capture,
\* the en passant capture, recordMove and the move itself
HumanMoveOnBoard(g, clickedPosition) ==
    LET sel == g.selectedPiece
        piece == g.pieces[sel]
        originalPosition == piece.position
        clicked == getPieceAt(g.pieces, clickedPosition)
        \* ordinary capture
        g1 == IF clicked # 0
              THEN [g EXCEPT !.pieces = removePiece(g.pieces, clicked),
                             !.capturedPieces = Append(g.capturedPieces,
                                                       Taken(g.pieces[clicked]))]
              ELSE g
        sel1 == Shift(sel, clicked)
        \* en passant capture
        isEnPassant == /\ piece.type = "pawn"
                       /\ originalPosition.x # clickedPosition.x
                       /\ clicked = 0
                       /\ g.lastEnPassantPosition # null
                       /\ clickedPosition = g.lastEnPassantPosition
        ep == IF isEnPassant
              THEN getPieceAt(g1.pieces, Sq(clickedPosition.x, originalPosition.y))
              ELSE 0
        g2 == IF ep # 0
              THEN [g1 EXCEPT !.pieces = removePiece(g1.pieces, ep),
                              !.capturedPieces = Append(g1.capturedPieces,
                                                        Taken(g1.pieces[ep]))]
              ELSE g1
        sel2 == Shift(sel1, ep)
        capturedPiece == IF ep # 0 THEN g1.pieces[ep]
                         ELSE IF clicked # 0 THEN g.pieces[clicked]
                         ELSE NoPiece
        g3 == recordMove(g2, piece, originalPosition, clickedPosition, capturedPiece)
    IN  WithBoard(g3, movePiece(Board(g3), sel2, clickedPosition))

\* the move branch of handleSquareClick: the selected piece goes to the
\* clicked square, the turn passes and the status is updated
ApplyHumanMove(g, clickedPosition) ==
    LET g4 == HumanMoveOnBoard(g, clickedPosition)
        g5 == [g4 EXCEPT !.selectedPiece = 0,
                         !.currentPlayer = Opponent(g.currentPlayer)]
    IN  updateStatus(g5)

\* handleSquareClick that selects a piece of either color
handleSquareClickAnyColor(g, clickedPosition) ==
    LET clicked == getPieceAt(g.pieces, clickedPosition)
        select == IF clicked # 0
                  THEN [g EXCEPT !.selectedPiece = clicked]
                  ELSE g
    IN  IF g.selectedPiece # 0
        THEN IF clicked = g.selectedPiece
             THEN [g EXCEPT !.selectedPiece = 0]
             ELSE IF isValidMove(g.pieces[g.selectedPiece], clickedPosition, Board(g))
                  THEN ApplyHumanMove(g, clickedPosition)
                  ELSE select
        ELSE select

handleSquareClick(g, clickedPosition) ==
    LET clicked == getPieceAt(g.pieces, clickedPosition)
        select == IF clicked # 0 /\ g.pieces[clicked].color = g.currentPlayer
                  THEN [g EXCEPT !.selectedPiece = clicked]
                  ELSE g
    IN  IF g.selectedPiece # 0
        THEN IF clicked = g.selectedPiece
             THEN [g EXCEPT !.selectedPiece = 0]
             ELSE IF isValidMove(g.pieces[g.selectedPiece], clickedPosition, Board(g))
                  THEN ApplyHumanMove(g, clickedPosition)
                  ELSE select
        ELSE select

(***************************************************************************)
(* Undo.  Board.addPiece is async: the piece is pushed, and the .then      *)
(* callback of undoSingleMove runs, in microtasks after the handler that    *)
(* called it has returned.  g.pending holds these continuations.           *)
(***************************************************************************)
addPiece(g, type, color, position, hasMoved, restore) ==
    [g EXCEPT !.pending = Append(g.pending,
        [type |-> type, color |-> color, position |-> position,
         hasMoved |-> hasMoved, restore |-> restore])]

\* undoSingleMove once the history is known to hold an entry
undoRecordedMove(g) ==
    LET lastMove == g.moveHistory[Len(g.moveHistory)]
        g1 == [g EXCEPT !.moveHistory = SubSeq(g.moveHistory, 1, Len(g.moveHistory) - 1)]
        movedPiece == getPieceAt(g.pieces, lastMove.toPosition)
    IN  IF movedPiece = 0 THEN g1
        ELSE
        LET reset == [g1 EXCEPT !.pieces[movedPiece].hasMoved = lastMove.piece.hasMoved]
            g2 == WithBoard(reset, movePiece(Board(reset), movedPiece, lastMove.fromPosition))
            g3 == IF lastMove.capturedPiece # NoPiece
                  THEN addPiece(g2, lastMove.capturedPiece.type,
                                lastMove.capturedPiece.color,
                                lastMove.capturedPiece.position,
                                lastMove.capturedPiece.hasMoved, TRUE)
                  ELSE g2
            g4 == [g3 EXCEPT !.lastEnPassantPosition = lastMove.enPassantPosition,
                             !.currentPlayer = lastMove.previousPlayer]
            g5 == updateStatus(g4)
        IN  [g5 EXCEPT !.selectedPiece = 0]

undoSingleMove(g) ==
    IF Len(g.moveHistory) = 0 THEN g ELSE undoRecordedMove(g)

\* undoLastMove with the second undoSingleMove in either mode
undoLastMoveTwoPlies(g) ==
    LET g1 == IF g.gameOver THEN [g EXCEPT !.gameOver = FALSE] ELSE g
    IN  IF g1.currentPlayer = computerColor
        THEN undoSingleMove(undoSingleMove(g1))
        ELSE undoSingleMove(g1)

undoLastMove(g) ==
    LET g1 == IF g.gameOver THEN [g EXCEPT !.gameOver = FALSE] ELSE g
    IN  IF g1.gameMode = "computer" /\ g1.currentPlayer = computerColor
        THEN undoSingleMove(undoSingleMove(g1))
        ELSE undoSingleMove(g1)

RECURSIVE FirstTaken(_, _, _, _)
FirstTaken(cs, type, color, i) ==
    IF i > Len(cs) THEN 0
    ELSE IF cs[i].type = type /\ cs[i].color = color THEN i
    ELSE FirstTaken(cs, type, color, i + 1)

\* one addPiece continuation, followed for a restoration by its .then callback
ResumeAddPiece(g, e) ==
    LET piece == ChessPiece(e.type, e.color, e.position)
        capturedIndex == FirstTaken(g.capturedPieces, e.type, e.color, 1)
    IN  IF e.restore
        THEN [g EXCEPT !.pieces = Append(g.pieces, [piece EXCEPT !.hasMoved = e.hasMoved]),
                       !.capturedPieces = IF capturedIndex # 0
                                          THEN RemoveAt(g.capturedPieces, capturedIndex)
                                          ELSE g.capturedPieces]
        ELSE [g EXCEPT !.pieces = Append(g.pieces, piece)]

RECURSIVE RunMicrotasks(_)
RunMicrotasks(g) ==
    IF g.pending = <<>> THEN g
    ELSE RunMicrotasks(ResumeAddPiece([g EXCEPT !.pending = Tail(g.pending)],
                                      Head(g.pending)))

(***************************************************************************)
(* Board.initializePieces and Game.resetGame.                              *)
(***************************************************************************)
RECURSIVE AddPawns(_, _)
AddPawns(g, x) ==
    IF x > 7 THEN g
    ELSE AddPawns(addPiece(addPiece(g, "pawn", "white", Sq(x, 6), FALSE, FALSE),
                           "pawn", "black", Sq(x, 1), FALSE, FALSE), x + 1)

BackRank == << <<"rook", 0>>, <<"rook", 7>>, <<"knight", 1>>, <<"knight", 6>>,
               <<"bishop", 2>>, <<"bishop", 5>> >>

RECURSIVE AddPairs(_, _)
AddPairs(g, k) ==
    IF k > Len(BackRank) THEN g
    ELSE LET type == BackRank[k][1]
             x1 == BackRank[k][2]
             x2 == BackRank[k + 1][2]
             g1 == addPiece(g,  type, "white", Sq(x1, 7), FALSE, FALSE)
             g2 == addPiece(g1, type, "white", Sq(x2, 7), FALSE, FALSE)
             g3 == addPiece(g2, type, "black", Sq(x1, 0), FALSE, FALSE)
             g4 == addPiece(g3, type, "black", Sq(x2, 0), FALSE, FALSE)
         IN  AddPairs(g4, k + 2)

initializePieces(g) ==
    LET g1 == AddPairs(AddPawns([g EXCEPT !.pieces = <<>>], 0), 1)
        g2 == addPiece(g1, "queen", "white", Sq(3, 7), FALSE, FALSE)
        g3 == addPiece(g2, "queen", "black", Sq(3, 0), FALSE, FALSE)
        g4 == addPiece(g3, "king", "white", Sq(4, 7), FALSE, FALSE)
    IN  addPiece(g4, "king", "black", Sq(4, 0), FALSE, FALSE)

resetGame(g) ==
    initializePieces([g EXCEPT !.currentPlayer = "white",
                               !.selectedPiece = 0,
                               !.capturedPieces = <<>>,
                               !.gameOver = FALSE,
                               !.isComputerThinking = FALSE,
                               !.moveHistory = <<>>,
                               !.pieces = <<>>])

\* new Game(gameMode): the constructor's fields, then init()
NewGame(gameMode) ==
    initializePieces([gameMode |-> gameMode,
                      currentPlayer |-> "white",
                      selectedPiece |-> 0,
                      capturedPieces |-> <<>>,
                      gameOver |-> FALSE,
                      moveHistory |-> <<>>,
                      isComputerThinking |-> FALSE,
                      timers |-> 0,
                      pieces |-> <<>>,
                      lastEnPassantPosition |-> null,
                      pending |-> <<>>])

(***************************************************************************)
(* The automated opponent.  Scores are kept in units of 1/20 so that every *)
(* term of evaluateMove (0.2, 0.5, 1.5/edgeDistance, ...) is an integer.   *)
(***************************************************************************)
ScoreUnit == 20

pieceValues(type) ==
    CASE type = "pawn" -> 1
      [] type = "knight" -> 3
      [] type = "bishop" -> 3
      [] type = "rook" -> 5
      [] type = "queen" -> 9
      [] type = "king" -> 100
      [] OTHER -> 0

isEndgame(b) ==
    LET Material(color) ==
            LET RECURSIVE Sum(_)
                Sum(k) == IF k = 0 THEN 0
                          ELSE Sum(k - 1)
                               + (IF b.pieces[k].color = color /\ b.pieces[k].type # "king"
                                  THEN pieceValues(b.pieces[k].type) ELSE 0)
            IN  Sum(Len(b.pieces))
        HasQueen(color) == \E k \in 1..Len(b.pieces) :
            b.pieces[k].color = color /\ b.pieces[k].type = "queen"
    IN  (Material("white") <= 12 /\ Material("black") <= 12)
        \/ ~HasQueen("white") \/ ~HasQueen("black")

isPieceProtected(b, position, pieceColor) ==
    \E k \in 1..Len(b.pieces) :
        /\ b.pieces[k].color = pieceColor
        /\ b.pieces[k].position # position
        /\ isValidMove(b.pieces[k], position, b)

\* squares counted along one diagonal from the target: every square up to
\* and including the first occupied one
RECURSIVE DiagonalCount(_, _, _, _, _)
DiagonalCount(b, x, y, dx, dy) ==
    IF x < 0 \/ x > 7 \/ y < 0 \/ y > 7 THEN 0
    ELSE IF Occupied(b.pieces, Sq(x, y)) THEN 1
    ELSE 1 + DiagonalCount(b, x + dx, y + dy, dx, dy)

\* the score of evaluateMove without its random term, times ScoreUnit
evaluateMove(b, i, targetPosition, inCheck) ==
    LET piece == b.pieces[i]
        tx == targetPosition.x
        ty == targetPosition.y
        capturedPiece == getPieceAt(b.pieces, targetPosition)
        capture == IF capturedPiece # 0
                   THEN pieceValues(b.pieces[capturedPiece].type) * 10 * ScoreUnit ELSE 0
        edgeDistance == Min2(Min2(tx, ty), Min2(7 - tx, 7 - ty))
        kingInCheck ==
            IF inCheck /\ piece.type = "king"
            THEN 15 * ScoreUnit
                 + (IF edgeDistance = 0 THEN -3 * ScoreUnit
                    ELSE (3 * ScoreUnit) \div (2 * edgeDistance))
            ELSE 0
        escape ==
            IF inCheck /\ piece.type # "king"
               /\ ~isKingInCheck([b EXCEPT !.pieces[i].position = targetPosition],
                                 piece.color)
            THEN 20 * ScoreUnit ELSE 0
        expose ==
            IF ~inCheck /\ piece.type # "king"
               /\ isKingInCheck([b EXCEPT !.pieces[i].position = OffBoard], piece.color)
            THEN -15 * ScoreUnit ELSE 0
        \* twice the Manhattan distance to (3.5, 3.5)
        twiceDistance == Abs(2 * tx - 7) + Abs(2 * ty - 7)
        center == -(twiceDistance * ScoreUnit) \div 2
        knight == IF piece.type = "knight" THEN -(twiceDistance * ScoreUnit) \div 4 ELSE 0
        bishop == IF piece.type = "bishop"
                  THEN (ScoreUnit \div 5)
                       * (DiagonalCount(b, tx - 1, ty - 1, -1, -1)
                          + DiagonalCount(b, tx - 1, ty + 1, -1, 1)
                          + DiagonalCount(b, tx + 1, ty - 1, 1, -1)
                          + DiagonalCount(b, tx + 1, ty + 1, 1, 1))
                  ELSE 0
        queen == IF piece.type = "queen" /\ ~isPieceProtected(b, targetPosition, piece.color)
                 THEN -5 * ScoreUnit ELSE 0
        forward == IF piece.color = "black" THEN 1 ELSE -1
        Threat(dx) ==
            LET x == tx + dx
                y == ty + forward
                t == IF x >= 0 /\ x < 8 /\ y >= 0 /\ y < 8
                     THEN getPieceAt(b.pieces, Sq(x, y)) ELSE 0
            IN  IF t # 0 /\ b.pieces[t].color # piece.color
                THEN (pieceValues(b.pieces[t].type) * ScoreUnit) \div 2 ELSE 0
        pawn == IF piece.type = "pawn"
                THEN (IF piece.color = "black"
                      THEN (ty * ScoreUnit) \div 2
                           + (IF ty >= 6 THEN 5 * ScoreUnit ELSE 0)
                      ELSE 0)
                     + Threat(1) + Threat(-1)
                ELSE 0
        king == IF piece.type = "king" /\ ~isEndgame(b)
                THEN (twiceDistance * ScoreUnit) \div 4 ELSE 0
    IN  capture + kingInCheck + escape + expose + center + knight + bishop
        + queen + pawn + king

\* Math.random() * 0.5 lies in [0, 0.5): a move is ranked above another for
\* certain only if its score without the random term is at least 0.5 higher
RandomSpan == ScoreUnit \div 2

\* every (piece, target) the enumeration of makeComputerMove keeps
possibleMoves(b) ==
    {m \in [piece : 1..Len(b.pieces), targetPosition : Squares] :
        /\ b.pieces[m.piece].color = computerColor
        /\ m.targetPosition # b.pieces[m.piece].position
        /\ isValidMove(b.pieces[m.piece], m.targetPosition, b)
        /\ ~wouldMoveLeaveKingInCheck(b, m.piece, m.targetPosition)}

\* size of the pool Math.floor(Math.random() * Math.min(k, length)) draws from
PoolSizeWide(inCheck) == IF inCheck THEN 3 ELSE 4

PoolSize(inCheck) == IF inCheck THEN 2 ELSE 3

\* the moves that can end up at an index below the pool size once the list
\* is sorted by descending score
SelectableMoves(b) ==
    LET inCheck == isKingInCheck(b, computerColor)
        scored == {[move |-> m,
                    score |-> evaluateMove(b, m.piece, m.targetPosition, inCheck)] :
                   m \in possibleMoves(b)}
    IN  {s.move : s \in {r \in scored :
            Cardinality({o \in scored : o.score >= r.score + RandomSpan})
                < PoolSize(inCheck)}}

\* performComputerMove up to Board.movePiece
ComputerMoveOnBoard(g, i, targetPosition) ==
    LET capturedPiece == getPieceAt(g.pieces, targetPosition)
        g1 == IF capturedPiece # 0
              THEN [g EXCEPT !.pieces = removePiece(g.pieces, capturedPiece),
                             !.capturedPieces = Append(g.capturedPieces,
                                                       Taken(g.pieces[capturedPiece]))]
              ELSE g
    IN  WithBoard(g1, movePiece(Board(g1), Shift(i, capturedPiece), targetPosition))

performComputerMove(g, i, targetPosition) ==
    LET g2 == ComputerMoveOnBoard(g, i, targetPosition)
        g3 == [g2 EXCEPT !.currentPlayer = "white"]
    IN  checkGameOver(updateStatus(g3))

\* the part of makeComputerMove after the move has been drawn
playSelectedMove(g, m) ==
    LET piece == g.pieces[m.piece]
        capturedPiece == getPieceAt(g.pieces, m.targetPosition)
        g1 == recordMove(g, piece, piece.position, m.targetPosition,
                         IF capturedPiece # 0 THEN g.pieces[capturedPiece] ELSE NoPiece)
        g2 == performComputerMove(g1, m.piece, m.targetPosition)
    IN  [g2 EXCEPT !.isComputerThinking = FALSE]

\* makeComputerMove that draws no move and leaves out checkGameOver
makeComputerMoveIdleUntested(g) ==
    [g EXCEPT !.isComputerThinking = FALSE]

\* makeComputerMove when it draws no move: its guard, no pieces, no moves
makeComputerMoveIdle(g) ==
    IF g.gameOver \/ g.currentPlayer # computerColor \/ g.gameMode # "computer"
    THEN [g EXCEPT !.isComputerThinking = FALSE]
    ELSE IF ~\E k \in 1..Len(g.pieces) : g.pieces[k].color = computerColor
    THEN [g EXCEPT !.isComputerThinking = FALSE]
    ELSE [checkGameOver(g) EXCEPT !.isComputerThinking = FALSE]

\* the guard of makeComputerMove without its test of currentPlayer
makeComputerMoveGuardAnyTurn(g) ==
    ~(g.gameOver \/ g.gameMode # "computer")

makeComputerMoveGuard(g) ==
    ~(g.gameOver \/ g.currentPlayer # computerColor \/ g.gameMode # "computer")

(***************************************************************************)
(* The state machine: one action per event handler of the page.            *)
(***************************************************************************)
VARIABLES game,        \* the fields of Game and of its Board
          lastEvent,   \* observer: what the last handler did
          snapshots,   \* observer: the position before each recorded move
          movesLeft,   \* moves that may still be played in this run
          undosLeft,   \* presses of the undo button still allowed in this run
          clickable,   \* the squares the human players click on in this run
          script       \* the events of the line of play still to be replayed

vars == <<game, lastEvent, snapshots, movesLeft, undosLeft, clickable, script>>

gameMode == game.gameMode
currentPlayer == game.currentPlayer
selectedPiece == game.selectedPiece
capturedPieces == game.capturedPieces
gameOver == game.gameOver
moveHistory == game.moveHistory
isComputerThinking == game.isComputerThinking
timers == game.timers
pieces == game.pieces
lastEnPassantPosition == game.lastEnPassantPosition
pending == game.pending

\* the squares the players click on, in the order MaxClick admits them
ClickOrder ==
    << Sq(4, 6), Sq(4, 4), Sq(3, 1), Sq(3, 3), Sq(5, 7), Sq(1, 3),
       Sq(4, 3), Sq(3, 2), Sq(5, 1), Sq(5, 3) >>
ClickSquares == {ClickOrder[k] : k \in 1..Min2(MaxClick, Len(ClickOrder))}

\* what the observers keep of a position
Placement(ps) == {[type |-> ps[k].type, color |-> ps[k].color,
                   position |-> ps[k].position] : k \in 1..Len(ps)}
Snapshot(g) == [placement |-> Placement(g.pieces),
                lastEnPassantPosition |-> g.lastEnPassantPosition,
                currentPlayer |-> g.currentPlayer]
NoSnapshot == [placement |-> {}, lastEnPassantPosition |-> null,
               currentPlayer |-> "none"]

Event(op) == [op |-> op, color |-> "none", unsafe |-> FALSE, lenBefore |-> 0,
              undone |-> 0, square |-> null, hadMoved |-> FALSE,
              player |-> "none", before |-> NoSnapshot, direct |-> FALSE,
              over |-> FALSE, captured |-> <<>>, from |-> null, type |-> "none",
              enPassant |-> FALSE, valid |-> FALSE, inCheck |-> FALSE,
              ahead |-> 0, candidates |-> 0, mode |-> "none", turn |-> "none",
              insufficient |-> FALSE, targets |-> {}, mover |-> "none"]

\* the move of piece i to pos is a pawn's diagonal step onto the empty square
\* lastEnPassantPosition holds
IsEnPassant(g, i, pos) ==
    /\ g.pieces[i].type = "pawn"
    /\ g.pieces[i].position.x # pos.x
    /\ getPieceAt(g.pieces, pos) = 0
    /\ g.lastEnPassantPosition # null
    /\ pos = g.lastEnPassantPosition

\* The effect of each handler on the game and on the observers, as a record
\* w of the variables it may change.
World == [game |-> game, lastEvent |-> lastEvent, snapshots |-> snapshots,
          movesLeft |-> movesLeft, undosLeft |-> undosLeft]

\* onMouseClick lets the click through to handleSquareClick
ClicksAccepted(g) ==
    /\ ~(g.gameMode = "computer" /\ g.currentPlayer = computerColor)
    /\ ~g.gameOver

\* the click submits a move of the selected piece
IsMoveClick(g, pos) ==
    /\ g.selectedPiece # 0
    /\ getPieceAt(g.pieces, pos) # g.selectedPiece
    /\ isValidMove(g.pieces[g.selectedPiece], pos, Board(g))

Clicked(w, pos) ==
    LET g == w.game
    IN  IF IsMoveClick(g, pos)
        THEN [w EXCEPT
                !.game = handleSquareClick(g, pos),
                !.lastEvent = [Event("move") EXCEPT
                    !.color = g.pieces[g.selectedPiece].color,
                    !.mover = g.pieces[g.selectedPiece].color,
                    !.type = g.pieces[g.selectedPiece].type,
                    !.from = g.pieces[g.selectedPiece].position,
                    !.enPassant = IsEnPassant(g, g.selectedPiece, pos),
                    !.before = Snapshot(g),
                    !.square = pos,
                    !.lenBefore = Len(g.moveHistory),
                    !.unsafe = wouldMoveLeaveKingInCheck(Board(g), g.selectedPiece, pos)],
                !.snapshots = Append(w.snapshots, Snapshot(g)),
                !.movesLeft = w.movesLeft - 1]
        ELSE [w EXCEPT !.game = handleSquareClick(g, pos)]

\* the 1000 ms timer set by updateStatus fires: makeComputerMove, which
\* draws the move m or, with NoMove, draws none
NoMove == [piece |-> 0, targetPosition |-> null]

DrawableMoves(g) ==
    IF makeComputerMoveGuard(g) THEN SelectableMoves(Board(g)) ELSE {}

\* the candidates of makeComputerMove that are ahead of the move m in the
\* sorted list whatever the random terms of the scores are
CertainlyAhead(b, m) ==
    LET inCheck == isKingInCheck(b, computerColor)
        score == evaluateMove(b, m.piece, m.targetPosition, inCheck)
    IN  {o \in possibleMoves(b) :
            evaluateMove(b, o.piece, o.targetPosition, inCheck) >= score + RandomSpan}

TimerFired(w, m) ==
    LET g == [w.game EXCEPT !.timers = w.game.timers - 1]
    IN  IF m # NoMove
        THEN [w EXCEPT
                !.game = playSelectedMove(g, m),
                !.lastEvent = [Event("computer") EXCEPT
                    !.color = g.pieces[m.piece].color,
                    !.mover = g.pieces[m.piece].color,
                    !.valid = isValidMove(g.pieces[m.piece], m.targetPosition, Board(g)),
                    !.inCheck = isKingInCheck(Board(g), computerColor),
                    !.ahead = Cardinality(CertainlyAhead(Board(g), m)),
                    !.candidates = Cardinality(possibleMoves(Board(g))),
                    !.mode = g.gameMode,
                    !.turn = g.currentPlayer,
                    !.over = g.gameOver,
                    !.type = g.pieces[m.piece].type,
                    !.from = g.pieces[m.piece].position,
                    !.enPassant = IsEnPassant(g, m.piece, m.targetPosition),
                    !.before = Snapshot(g),
                    !.square = m.targetPosition,
                    !.lenBefore = Len(g.moveHistory),
                    !.unsafe = wouldMoveLeaveKingInCheck(Board(g), m.piece,
                                                         m.targetPosition)],
                !.snapshots = Append(w.snapshots, Snapshot(g)),
                !.movesLeft = w.movesLeft - 1]
        ELSE [w EXCEPT
                !.game = makeComputerMoveIdle(g),
                !.lastEvent = [Event("idle") EXCEPT
                    !.mover = w.lastEvent.mover,
                    !.lenBefore = Len(g.moveHistory),
                    !.before = Snapshot(g),
                    !.mode = g.gameMode,
                    !.turn = g.currentPlayer,
                    !.over = g.gameOver]]

\* the undo button
UndoPressed(w) ==
    LET g == w.game
        after == undoLastMove(g)
        n == Len(g.moveHistory) - Len(after.moveHistory)
        last == g.moveHistory[Len(g.moveHistory)]
    IN  [w EXCEPT
            !.game = after,
            !.snapshots = SubSeq(w.snapshots, 1, Len(w.snapshots) - n),
            !.undosLeft = w.undosLeft - 1,
            !.lastEvent = [Event("undo") EXCEPT
                !.lenBefore = Len(g.moveHistory),
                !.undone = n,
                !.color = g.currentPlayer,
                !.square = IF n > 0 THEN last.fromPosition ELSE null,
                !.hadMoved = IF n > 0 THEN last.piece.hasMoved ELSE FALSE,
                !.player = IF n > 0 THEN last.previousPlayer ELSE "none",
                !.before = IF n > 0 THEN w.snapshots[Len(w.snapshots) - n + 1]
                           ELSE Snapshot(g),
                !.over = g.gameOver,
                !.captured = g.capturedPieces,
                !.direct = w.lastEvent.op \in {"move", "computer"}]]

\* the reset button
ResetPressed(w) ==
    [w EXCEPT !.game = resetGame(w.game),
              !.lastEvent = Event("reset"),
              !.snapshots = <<>>]

\* observer: the color of the last move applied since the last undo or
\* reset, kept in lastEvent.mover; a step applies a move exactly when it adds a
\* snapshot
MoveApplied == Len(snapshots') = Len(snapshots) + 1

\* A run replays the events of script, if there are any, and is free to
\* choose its events after that.
Replaying == script # <<>>
Replayed(kind) == Replaying /\ Head(script).kind = kind

Click(x, y) == [kind |-> "click", from |-> null, to |-> Sq(x, y)]
Reply(x1, y1, x2, y2) == [kind |-> "reply", from |-> Sq(x1, y1), to |-> Sq(x2, y2)]
Idle == [kind |-> "idle", from |-> null, to |-> null]
Undo == [kind |-> "undo", from |-> null, to |-> null]
Reset == [kind |-> "reset", from |-> null, to |-> null]
Move(x1, y1, x2, y2) == <<Click(x1, y1), Click(x2, y2)>>

\* the squares the next click may be on
ClickInputs ==
    IF Replaying
    THEN IF Head(script).kind = "click" THEN {Head(script).to} ELSE {}
    ELSE clickable

\* the moves the next firing of the timer may draw, of those it can draw
ReplyInputs(drawable) ==
    IF Replaying
    THEN {m \in drawable : /\ Head(script).kind = "reply"
                           /\ game.pieces[m.piece].position = Head(script).from
                           /\ m.targetPosition = Head(script).to}
    ELSE drawable

\* the replayed events are not counted against the moves and undos of the run
Becomes(w) ==
    /\ game' = w.game
    /\ lastEvent' = w.lastEvent
    /\ snapshots' = w.snapshots
    /\ IF Replaying
       THEN script' = Tail(script) /\ UNCHANGED <<movesLeft, undosLeft>>
       ELSE /\ movesLeft' = w.movesLeft
            /\ undosLeft' = w.undosLeft
            /\ w.game.timers <= MaxTimers
            /\ UNCHANGED script
    /\ UNCHANGED clickable

Init ==
    /\ \E mode \in {"friend", "computer"} :
          /\ game = NewGame(mode)
          /\ lastEvent = Event("new")
          /\ snapshots = <<>>
    /\ movesLeft = MaxPlies
    /\ undosLeft = MaxUndo
    /\ clickable = ClickSquares
    /\ script = <<>>

MicrotaskCheckpoint ==
    /\ pending # <<>>
    /\ game' = RunMicrotasks(game)
    /\ UNCHANGED <<lastEvent, snapshots, movesLeft, undosLeft, clickable, script>>

SelectClick ==
    /\ pending = <<>>
    /\ ClicksAccepted(game)
    /\ \E pos \in ClickInputs :
          /\ ~IsMoveClick(game, pos)
          /\ Becomes(Clicked(World, pos))

MoveClick ==
    /\ pending = <<>>
    /\ ClicksAccepted(game)
    /\ Replaying \/ movesLeft > 0
    /\ \E pos \in ClickInputs :
          /\ IsMoveClick(game, pos)
          /\ Becomes(Clicked(World, pos))

ComputerTimer ==
    /\ pending = <<>>
    /\ timers > 0
    /\ LET drawable == DrawableMoves(game)
       IN  IF drawable # {}
           THEN /\ Replaying \/ movesLeft > 0
                /\ \E m \in ReplyInputs(drawable) : Becomes(TimerFired(World, m))
           ELSE /\ ~Replaying \/ Replayed("idle")
                /\ Becomes(TimerFired(World, NoMove))

\* undoLastMove, in either mode: updateGameModeDisplay hides the undo button
\* in computer mode, but the listener stays registered and undoLastMove keeps
\* its branch for the computer's turn
UndoLastMove ==
    /\ pending = <<>>
    /\ IF Replaying THEN Replayed("undo") ELSE undosLeft > 0
    /\ Becomes(UndoPressed(World))

ResetGame ==
    /\ pending = <<>>
    /\ Replaying => Replayed("reset")
    /\ Becomes(ResetPressed(World))

Next ==
    \/ MicrotaskCheckpoint
    \/ SelectClick
    \/ MoveClick
    \/ ComputerTimer
    \/ UndoLastMove
    \/ ResetGame

Spec == Init /\ [][Next]_vars

\* Fairness of ComputerTimer, written out: a callback that is pending while
\* no continuation is fires in the end, and the steps that fire one are the
\* steps that take a callback off the timers.  A run that MaxPlies stops with
\* a callback still to fire is no run of the program and is left out by this.
TimerFires ==
    \/ []<>(timers = 0 \/ pending # <<>>)
    \/ []<><<timers' < timers>>_vars

\* Fairness of MicrotaskCheckpoint, written out: the action is enabled
\* exactly when a continuation is pending, and its steps leave none pending.
MicrotasksRun == []<>(pending = <<>>)

\* setTimeout callbacks and promise continuations are run by the event loop
\* once they are due
SpecLive == Spec /\ MicrotasksRun /\ TimerFires

(***************************************************************************)
(* Runs that start in the middle of a game: they replay a line of play     *)
(* from a new game, event by event through the handlers above, and go on   *)
(* freely from the position the line ends in.                              *)
(***************************************************************************)
\* 1.d3 d5 2.Kd2 Qd6 3.h4 Qh6+ 4.h5 g5 between two players: the pawn on h5
\* can take en passant on g6
EnPassantLine ==
    Move(3, 6, 3, 5) \o Move(3, 1, 3, 3) \o Move(4, 7, 3, 6) \o Move(3, 0, 3, 2)
    \o Move(7, 6, 7, 4) \o Move(3, 2, 7, 2) \o Move(7, 4, 7, 3) \o Move(6, 1, 6, 3)

\* 1.a3 d5 2.a4 d4 3.e4 against the automated opponent, which is to move
ReplyEnPassantLine ==
    Move(0, 6, 0, 5) \o <<Reply(3, 1, 3, 3)>> \o Move(0, 5, 0, 4)
    \o <<Reply(3, 3, 3, 4)>> \o Move(4, 6, 4, 4)

\* 1.e4 d5 2.Bb5+ Bd7 3.Bxd7+ against the automated opponent, then the undo
\* button twice before the opponent has replied
UndoLine ==
    Move(4, 6, 4, 4) \o <<Reply(3, 1, 3, 3)>> \o Move(5, 7, 1, 3)
    \o <<Reply(2, 0, 3, 1)>> \o Move(1, 3, 3, 1) \o <<Undo, Undo>>

\* against the automated opponent: 1.Nc3 f5 2.Nb1 e5 3.Nc3 e4 4.g3 f4 5.Nh3 e3
\* 6.dxe3 and the undo button before the reply, which leaves the black pawn on
\* e3; 6.Nb1 fxg3 7.Nc3 gxf2+ 8.Kxf2 and the undo button before the reply,
\* which leaves the black pawn on f2; then the undo button until moveHistory
\* is empty.  White, to move, is checkmated by the pawn on f2.
GameOverLine ==
    Move(1, 7, 2, 5) \o <<Reply(5, 1, 5, 3)>> \o Move(2, 5, 1, 7) \o <<Reply(4, 1, 4, 3)>>
    \o Move(1, 7, 2, 5) \o <<Reply(4, 3, 4, 4)>> \o Move(6, 6, 6, 5) \o <<Reply(5, 3, 5, 4)>>
    \o Move(6, 7, 7, 5) \o <<Reply(4, 4, 4, 5)>> \o Move(3, 6, 4, 5) \o <<Undo>>
    \o Move(2, 5, 1, 7) \o <<Reply(5, 4, 6, 5)>> \o Move(1, 7, 2, 5) \o <<Reply(6, 5, 5, 6)>>
    \o Move(4, 7, 5, 6) \o <<Undo>>
    \o <<Undo, Undo, Undo, Undo, Undo, Undo, Undo, Undo, Undo, Undo, Undo, Undo>>

\* 1.e4 between two players, then the reset button: the new game starts with
\* the lastEnPassantPosition e3 of the game before
ResetLine == Move(4, 6, 4, 4) \o <<Reset>>

\* 1.Nf3 a6 2.g3 a5 3.Bg2 a4 4.b3 h6 5.Bb2 h5 between two players: the white
\* king and rooks have not moved, f1, g1 and c1 are empty, d1 and b1 are not
CastlingLine ==
    Move(6, 7, 5, 5) \o Move(0, 1, 0, 2) \o Move(6, 6, 6, 5) \o Move(0, 2, 0, 3)
    \o Move(5, 7, 6, 6) \o Move(0, 3, 0, 4) \o Move(1, 6, 1, 5) \o Move(7, 1, 7, 2)
    \o Move(2, 7, 1, 6) \o Move(7, 2, 7, 3)

\* 1.f3 e5 2.g4 Qh4 between two players: white is checkmated
FoolsMateLine ==
    Move(5, 6, 5, 5) \o Move(4, 1, 4, 3) \o Move(6, 6, 6, 4) \o Move(3, 0, 7, 4)

\* against the automated opponent: 1.e4 e5 2.Bc4 Bc5 3.Qh5 Bxf2+ 4.Kxf2 and
\* the undo button before the reply, which hands the move back to white with
\* the callback of 4.Kxf2 still to fire; then 4.Qxf7, which checkmates black
StaleTimerLine ==
    Move(4, 6, 4, 4) \o <<Reply(4, 1, 4, 3)>> \o Move(5, 7, 2, 4) \o <<Reply(5, 0, 2, 3)>>
    \o Move(3, 7, 7, 3) \o <<Reply(2, 3, 5, 6)>> \o Move(4, 7, 5, 6) \o <<Undo>>
    \o Move(7, 3, 5, 1)

\* a game between two players in which every move passes the king-safety
\* filter and that comes down to king and knight against king: 1.e3 a6
\* 2.Bxa6 Nxa6 3.b4 Nxb4 4.c4 Rxa2 5.Rxa2 Nxa2 6.Kf1 Nxc1 7.Qxc1 d5 8.cxd5 Qxd5
\* 9.Qxc7 Qxd2 10.Qxb7 Qxe3 11.fxe3 Bxb7 12.h4 Bxg2+ 13.Kxg2 g5 14.hxg5 h6
\* 15.Rxh6 Nxh6 16.gxh6 Rxh6 17.Nh3 Rxh3 18.Kxh3 Bh6 19.Na3 Bxe3 20.Kh4 Bg5+
\* 21.Kxg5 f5 22.Kxf5 e6+ 23.Kxe6
KnightEndingLine ==
    Move(4, 6, 4, 5) \o Move(0, 1, 0, 2) \o Move(5, 7, 0, 2) \o Move(1, 0, 0, 2)
    \o Move(1, 6, 1, 4) \o Move(0, 2, 1, 4) \o Move(2, 6, 2, 4) \o Move(0, 0, 0, 6)
    \o Move(0, 7, 0, 6) \o Move(1, 4, 0, 6) \o Move(4, 7, 5, 7) \o Move(0, 6, 2, 7)
    \o Move(3, 7, 2, 7) \o Move(3, 1, 3, 3) \o Move(2, 4, 3, 3) \o Move(3, 0, 3, 3)
    \o Move(2, 7, 2, 1) \o Move(3, 3, 3, 6) \o Move(2, 1, 1, 1) \o Move(3, 6, 4, 5)
    \o Move(5, 6, 4, 5) \o Move(2, 0, 1, 1) \o Move(7, 6, 7, 4) \o Move(1, 1, 6, 6)
    \o Move(5, 7, 6, 6) \o Move(6, 1, 6, 3) \o Move(7, 4, 6, 3) \o Move(7, 1, 7, 2)
    \o Move(7, 7, 7, 2) \o Move(6, 0, 7, 2) \o Move(6, 3, 7, 2) \o Move(7, 0, 7, 2)
    \o Move(6, 7, 7, 5) \o Move(7, 2, 7, 5) \o Move(6, 6, 7, 5) \o Move(5, 0, 7, 2)
    \o Move(1, 7, 0, 5) \o Move(7, 2, 4, 5) \o Move(7, 5, 7, 4) \o Move(4, 5, 6, 3)
    \o Move(7, 4, 6, 3) \o Move(5, 1, 5, 3) \o Move(6, 3, 5, 3) \o Move(4, 1, 4, 2)
    \o Move(5, 3, 4, 2)

\* 1.e4 e5 2.Qh5 Nc6 3.Qxf7+ between two players: the black king is in check
\* and can take the queen
QueenRaidLine ==
    Move(4, 6, 4, 4) \o Move(4, 1, 4, 3) \o Move(3, 7, 7, 3) \o Move(1, 0, 2, 2)
    \o Move(7, 3, 5, 1)

\* 1.e4 d5 2.Bb5+ a6 3.Bxe8 between two players: black leaves the king in
\* check and white takes it
KingCaptureLine ==
    Move(4, 6, 4, 4) \o Move(3, 1, 3, 3) \o Move(5, 7, 1, 3) \o Move(0, 1, 0, 2)
    \o Move(1, 3, 4, 0)

\* 1.g4 Nf6 2.f3 Nh5 3.a3 Ng3 4.a4 e6 5.a5 Qh4 6.hxg3 between two players,
\* then the undo button: the knight on g3 is all that stands between the
\* queen on h4 and the king on e1
ShieldLine ==
    Move(6, 6, 6, 4) \o Move(6, 0, 5, 2) \o Move(5, 6, 5, 5) \o Move(5, 2, 7, 3)
    \o Move(0, 6, 0, 5) \o Move(7, 3, 6, 5) \o Move(0, 5, 0, 4) \o Move(4, 1, 4, 2)
    \o Move(0, 4, 0, 3) \o Move(3, 0, 7, 4) \o Move(7, 6, 6, 5) \o <<Undo>>

Midgames ==
    { [mode |-> "friend", line |-> EnPassantLine, squares |-> {Sq(7, 3), Sq(6, 2)}],
      [mode |-> "computer", line |-> ReplyEnPassantLine, squares |-> {Sq(4, 4)}],
      [mode |-> "computer", line |-> UndoLine, squares |-> {Sq(5, 7)}],
      [mode |-> "computer", line |-> GameOverLine, squares |-> {Sq(6, 7)}],
      [mode |-> "friend", line |-> ResetLine, squares |-> {Sq(3, 6), Sq(4, 5)}],
      [mode |-> "friend", line |-> CastlingLine,
       squares |-> {Sq(4, 7), Sq(6, 7)}],
      [mode |-> "friend", line |-> FoolsMateLine, squares |-> {Sq(3, 0), Sq(7, 4)}],
      [mode |-> "computer", line |-> StaleTimerLine, squares |-> {Sq(4, 7)}],
      [mode |-> "friend", line |-> KnightEndingLine, squares |-> {Sq(4, 0), Sq(3, 0)}],
      [mode |-> "friend", line |-> QueenRaidLine, squares |-> {Sq(4, 0), Sq(5, 1)}],
      [mode |-> "friend", line |-> KingCaptureLine, squares |-> {Sq(0, 2), Sq(0, 3)}],
      [mode |-> "friend", line |-> ShieldLine, squares |-> {Sq(0, 3), Sq(0, 2)}] }

InitMidgame ==
    \E m \in Midgames :
        /\ game = NewGame(m.mode)
        /\ lastEvent = Event("new")
        /\ snapshots = <<>>
        /\ script = m.line
        /\ movesLeft = MidgamePlies
        /\ undosLeft = MaxUndo
        /\ clickable = m.squares

SpecMidgame == InitMidgame /\ [][Next]_vars

(***************************************************************************)
(* hasInsufficientMaterial on its own, applied to boards of the two kings  *)
(* and a few more pieces.                                                  *)
(***************************************************************************)
MaterialSquares == <<Sq(2, 3), Sq(3, 3), Sq(5, 4), Sq(6, 4)>>
Vacant == <<"none", "none">>
MaterialKinds ==
    {"pawn", "knight", "bishop", "rook", "queen"} \X {"white", "black"}

\* the pieces a choice f of a kind or Vacant for each of MaterialSquares
\* puts on the board, from square k on
RECURSIVE Extras(_, _)
Extras(f, k) ==
    IF k > Len(MaterialSquares) THEN <<>>
    ELSE (IF f[k] = Vacant THEN <<>>
          ELSE <<[ChessPiece(f[k][1], f[k][2], MaterialSquares[k])
                    EXCEPT !.hasMoved = TRUE]>>)
         \o Extras(f, k + 1)

Kings == << [ChessPiece("king", "white", Sq(4, 7)) EXCEPT !.hasMoved = TRUE],
            [ChessPiece("king", "black", Sq(4, 0)) EXCEPT !.hasMoved = TRUE] >>

InitMaterial ==
    /\ \E f \in [1..Len(MaterialSquares) -> MaterialKinds \cup {Vacant}] :
          /\ Len(Extras(f, 1)) <= MaxExtras
          /\ game = [NewGame("friend") EXCEPT !.pending = <<>>,
                                               !.pieces = Kings \o Extras(f, 1)]
    /\ lastEvent = Event("new")
    /\ snapshots = <<>>
    /\ movesLeft = 0
    /\ undosLeft = 0
    /\ clickable = {}
    /\ script = <<>>

HasInsufficientMaterial ==
    /\ lastEvent.op = "new"
    /\ lastEvent' = [Event("material") EXCEPT
                        !.insufficient = hasInsufficientMaterial(Board(game))]
    /\ UNCHANGED <<game, snapshots, movesLeft, undosLeft, clickable, script>>

SpecMaterial == InitMaterial /\ [][HasInsufficientMaterial]_vars

(***************************************************************************)
(* isValidMove of a pawn on its own, applied to boards of the two kings, a  *)
(* pawn and a few pieces on the squares ahead of it.                       *)
(***************************************************************************)
PawnFiles == {0, 2}
PawnRanks == 1..6
StartRank(color) == IF color = "white" THEN 6 ELSE 1
Forward(color) == IF color = "white" THEN -1 ELSE 1

\* the squares ahead of a pawn: one and two steps forward, one step
\* diagonally forward to either side
Ahead(color, pos) ==
    << Sq(pos.x, pos.y + Forward(color)), Sq(pos.x, pos.y + 2 * Forward(color)),
       Sq(pos.x - 1, pos.y + Forward(color)), Sq(pos.x + 1, pos.y + Forward(color)) >>

\* the targets isValidMove is asked about: the board and the ring around it
Targets == {Sq(x, y) : x \in -1..8, y \in -1..8}

\* the pieces a choice f of "none" or a color for each square of sqs puts on
\* the board, from square k on
RECURSIVE Neighbours(_, _, _)
Neighbours(f, sqs, k) ==
    IF k > Len(sqs) THEN <<>>
    ELSE (IF f[k] = "none" \/ sqs[k] \notin Squares THEN <<>>
          ELSE <<[ChessPiece("knight", f[k], sqs[k]) EXCEPT !.hasMoved = TRUE]>>)
         \o Neighbours(f, sqs, k + 1)

\* lastEnPassantPosition is null or a square a double step passes over
EnPassantSquares == {null} \cup {s \in Squares : s.y \in {2, 5}}

\* A pawn that has not moved stands on its starting rank: the pieces are
\* created on their starting squares and Board.movePiece sets hasMoved.
InitPawn ==
    /\ \E color \in {"white", "black"}, x \in PawnFiles, y \in PawnRanks,
          hasMoved \in BOOLEAN, f \in [1..4 -> {"none", "white", "black"}],
          enPassant \in EnPassantSquares :
          LET pos == Sq(x, y)
              near == Neighbours(f, Ahead(color, pos), 1)
          IN  /\ ~hasMoved => y = StartRank(color)
              /\ Len(near) <= MaxNeighbours
              /\ enPassant = null
                 \/ (enPassant \in {Ahead(color, pos)[k] : k \in {1, 3, 4}}
                     /\ ~Occupied(near, enPassant))
              /\ game = [NewGame("friend") EXCEPT
                            !.pending = <<>>,
                            !.lastEnPassantPosition = enPassant,
                            !.pieces = Kings
                                \o <<[ChessPiece("pawn", color, pos)
                                        EXCEPT !.hasMoved = hasMoved]>>
                                \o near]
    /\ lastEvent = Event("new")
    /\ snapshots = <<>>
    /\ movesLeft = 0
    /\ undosLeft = 0
    /\ clickable = {}
    /\ script = <<>>

\* the pawn of these boards
ThePawn == pieces[Len(Kings) + 1]

IsValidPawnMove ==
    /\ lastEvent.op = "new"
    /\ lastEvent' = [Event("pawn") EXCEPT
                        !.targets = {t \in Targets : isValidMove(ThePawn, t, Board(game))}]
    /\ UNCHANGED <<game, snapshots, movesLeft, undosLeft, clickable, script>>

SpecPawn == InitPawn /\ [][IsValidPawnMove]_vars

(***************************************************************************)
(* The claims.                                                             *)
(***************************************************************************)
\* C1: every move a human player gets applied passes the king-safety filter:
\* a submitted move that would leave the mover's own king in check is
\* rejected.
HumanMovePassesFilter ==
    lastEvent.op = "move" => ~lastEvent.unsafe

\* the board after piece i has actually been moved to pos, by the handler of
\* whoever moves that piece
AppliedBoard(g, i, pos) ==
    IF g.gameMode = "computer" /\ g.pieces[i].color = computerColor
    THEN Board(ComputerMoveOnBoard(g, i, pos))
    ELSE Board(HumanMoveOnBoard([g EXCEPT !.selectedPiece = i], pos))

\* C2: for every candidate move of the player to move with isValidMove true
\* and wouldMoveLeaveKingInCheck false, the mover's king is not in check on
\* the board that results from applying the move, en passant included.
FilterKeepsKingSafe ==
    pending = <<>> =>
        \A i \in 1..Len(pieces) : \A pos \in Squares :
            ( /\ pieces[i].color = currentPlayer
              /\ pos # pieces[i].position
              /\ isValidMove(pieces[i], pos, Board(game))
              /\ ~wouldMoveLeaveKingInCheck(Board(game), i, pos) )
            => ~isKingInCheck(AppliedBoard(game, i, pos), pieces[i].color)

\* C3: a move that is applied and then undone at once, restorations
\* completed, leaves the pieces by type and color on the squares, the
\* lastEnPassantPosition and the currentPlayer of before the move.
UndoRestoresPosition ==
    ( /\ lastEvent.op = "undo"
      /\ lastEvent.undone = 1
      /\ lastEvent.direct
      /\ pending = <<>> )
    => Snapshot(game) = lastEvent.before

\* C4: after an undo the piece moved back has the hasMoved flag recordMove
\* had kept of it.
UndoRestoresHasMoved ==
    ( /\ lastEvent.op = "undo"
      /\ lastEvent.undone = 1
      /\ pending = <<>>
      /\ getPieceAt(pieces, lastEvent.square) # 0 )
    => pieces[getPieceAt(pieces, lastEvent.square)].hasMoved = lastEvent.hadMoved

\* C5: in computer mode an undo invoked on the computer's turn reverses the
\* last two entries of moveHistory: both are popped and, restorations
\* completed, the pieces stand as they stood before the earlier of the two;
\* and once no computer-move callback is pending either, white is the player
\* to move of a game that is not over.
ComputerUndoReversesTwoPlies ==
    gameMode = "computer" =>
        /\ ( /\ lastEvent.op = "undo"
             /\ lastEvent.color = computerColor
             /\ lastEvent.lenBefore >= 2
             /\ pending = <<>> )
           => /\ lastEvent.undone = 2
              /\ Placement(pieces) = lastEvent.before.placement
        /\ (timers = 0 /\ pending = <<>> /\ ~gameOver) => currentPlayer = "white"

\* C6: in friend mode an undo with a non-empty moveHistory pops exactly one
\* entry and hands the turn to the previousPlayer of that entry.
FriendUndoReversesOnePly ==
    (gameMode = "friend" /\ lastEvent.op = "undo" /\ lastEvent.lenBefore > 0)
    => /\ lastEvent.undone = 1
       /\ Len(moveHistory) = lastEvent.lenBefore - 1
       /\ currentPlayer = lastEvent.player

FriendUndoWitness ==
    /\ gameMode = "friend"
    /\ lastEvent.op = "undo"
    /\ lastEvent.lenBefore = 2
    /\ currentPlayer = "black"

\* C7: the undo button pressed on an empty moveHistory changes neither the
\* pieces on the squares nor capturedPieces, lastEnPassantPosition,
\* currentPlayer and gameOver.
UndoOnEmptyHistoryIsNoOp ==
    (lastEvent.op = "undo" /\ lastEvent.lenBefore = 0)
    => /\ Snapshot(game) = lastEvent.before
       /\ capturedPieces = lastEvent.captured
       /\ gameOver = lastEvent.over

\* C8: once the pending restorations have run, no two pieces of the board
\* stand on the same square.
NoSharedSquare ==
    pending = <<>> =>
        \A i, j \in 1..Len(pieces) :
            i # j => pieces[i].position # pieces[j].position

\* C9: wouldMoveLeaveKingInCheck leaves the list of pieces as it found it,
\* for every piece and every target: same order, same squares, same hasMoved.
FilterLeavesBoardIntact ==
    \A i \in 1..Len(pieces) : \A pos \in Squares :
        RestoredPieces(Board(game), i, pos) = pieces

FilterCaptureWitness ==
    /\ pending = <<>>
    /\ \E i \in 1..Len(pieces) : \E pos \in Squares :
          /\ getPieceAt(pieces, pos) \notin {0, i, Len(pieces)}
          /\ pieces[getPieceAt(pieces, pos)].color # pieces[i].color
          /\ isValidMove(pieces[i], pos, Board(game))

\* C10: lastEnPassantPosition is set only while the last move played is a
\* pawn's double step, and then it is the square that pawn skipped.
EnPassantOnlyAfterDoubleStep ==
    lastEnPassantPosition # null =>
        /\ moveHistory # <<>>
        /\ LET m == moveHistory[Len(moveHistory)]
           IN  /\ m.piece.type = "pawn"
               /\ Abs(m.toPosition.y - m.fromPosition.y) = 2
               /\ lastEnPassantPosition
                    = Sq(m.toPosition.x, (m.fromPosition.y + m.toPosition.y) \div 2)

\* C11: a pawn's diagonal move onto the empty square lastEnPassantPosition
\* held before the move, by a human player or by the automated opponent,
\* takes exactly one piece off the board: the enemy pawn on the file of the
\* target and the rank of the origin.
EnPassantTakesEnemyPawn ==
    (lastEvent.op \in {"move", "computer"} /\ lastEvent.enPassant)
    => LET mover == [type |-> "pawn", color |-> lastEvent.color]
           taken == [type |-> "pawn", color |-> Opponent(lastEvent.color),
                     position |-> Sq(lastEvent.square.x, lastEvent.from.y)]
           origin == [type |-> "pawn", color |-> lastEvent.color,
                      position |-> lastEvent.from]
           target == [type |-> "pawn", color |-> lastEvent.color,
                      position |-> lastEvent.square]
       IN  /\ taken \in lastEvent.before.placement
           /\ Placement(pieces)
                = (lastEvent.before.placement \ {taken, origin}) \cup {target}

\* C12: a king's move of two squares along its rank has a legal shape only
\* if the king has not moved, the rook in the corner the king moves towards
\* is of the king's color and has not moved, and the squares strictly between
\* the king and that rook are empty; towards file 7 and towards file 0.
CastlingNeedsRookAndClearPath ==
    pending = <<>> =>
        \A i \in 1..Len(pieces) : \A x \in Coord :
            LET king == pieces[i]
                y == king.position.y
                corner == IF x > king.position.x THEN 7 ELSE 0
            IN  ( /\ king.type = "king"
                  /\ Abs(x - king.position.x) = 2
                  /\ isValidKingMove(king, Sq(x, y), Board(game)) )
                => /\ ~king.hasMoved
                   /\ \E j \in 1..Len(pieces) :
                          /\ pieces[j].type = "rook"
                          /\ pieces[j].color = king.color
                          /\ pieces[j].position = Sq(corner, y)
                          /\ ~pieces[j].hasMoved
                   /\ \A between \in Coord :
                          ( /\ Min2(king.position.x, corner) < between
                            /\ between < Max2(king.position.x, corner) )
                          => ~Occupied(pieces, Sq(between, y))

\* C13: once a king's move of two squares along its rank has been applied,
\* the rook stands on the square the king passed over and has hasMoved set.
CastlingMovesRook ==
    ( /\ lastEvent.op \in {"move", "computer"}
      /\ lastEvent.type = "king"
      /\ lastEvent.from.y = lastEvent.square.y
      /\ Abs(lastEvent.square.x - lastEvent.from.x) = 2 )
    => LET passed == Sq((lastEvent.from.x + lastEvent.square.x) \div 2,
                        lastEvent.from.y)
           rook == getPieceAt(pieces, passed)
       IN  /\ rook # 0
           /\ pieces[rook].type = "rook"
           /\ pieces[rook].color = lastEvent.color
           /\ pieces[rook].hasMoved

\* some piece of the color has a target square with isValidMove true and
\* wouldMoveLeaveKingInCheck false
HasLegalMove(b, color) ==
    \E i \in 1..Len(b.pieces) : \E pos \in Squares :
        /\ b.pieces[i].color = color
        /\ isValidMove(b.pieces[i], pos, b)
        /\ ~wouldMoveLeaveKingInCheck(b, i, pos)

\* C14: for either color, isInCheckmate is true exactly when the king is in
\* check and no piece of the color has a legal move, isInStalemate exactly
\* when the king is not in check and no piece of the color has a legal move;
\* the two are never true together.
MateAndStalemateAreExact ==
    pending = <<>> =>
        \A c \in {"white", "black"} :
            LET b == Board(game)
            IN  /\ isInCheckmate(b, c) = (isKingInCheck(b, c) /\ ~HasLegalMove(b, c))
                /\ isInStalemate(b, c) = (~isKingInCheck(b, c) /\ ~HasLegalMove(b, c))
                /\ ~(isInCheckmate(b, c) /\ isInStalemate(b, c))

CheckmateWitness ==
    /\ pending = <<>>
    /\ isInCheckmate(Board(game), "white")
    /\ gameOver

\* C17: while gameOver is true no click, deferred computer move or undo
\* changes the pieces on the squares or currentPlayer or sets gameOver back
\* to false; only the reset button does.
GameOverIsTerminal ==
    [][(gameOver /\ lastEvent'.op # "reset")
       => /\ gameOver'
          /\ Placement(pieces') = Placement(pieces)
          /\ currentPlayer' = currentPlayer]_vars

StaleCallbackChangesNothing ==
    ( /\ lastEvent.op \in {"computer", "idle"}
      /\ ~( /\ lastEvent.mode = "computer"
            /\ lastEvent.turn = "black"
            /\ ~lastEvent.over ) )
    => /\ lastEvent.op = "idle"
       /\ Snapshot(game) = lastEvent.before
       /\ Len(moveHistory) = lastEvent.lenBefore

StaleCallbackWitness ==
    /\ lastEvent.op = "idle"
    /\ lastEvent.mode = "computer"
    /\ lastEvent.turn = "white"
    /\ moveHistory = <<>>

\* C18: every move makeComputerMove applies is the move of a piece of the
\* computer's color with isValidMove true and wouldMoveLeaveKingInCheck false
\* on the board it is applied to; and when makeComputerMove, past its guard,
\* finds no such move, it leaves the pieces and currentPlayer as they are and
\* the game is over.
ComputerMoveIsLegal ==
    /\ lastEvent.op = "computer"
       => /\ lastEvent.color = "black"
          /\ lastEvent.valid
          /\ ~lastEvent.unsafe
    /\ ( /\ lastEvent.op = "idle"
         /\ lastEvent.mode = "computer"
         /\ lastEvent.turn = "black"
         /\ ~lastEvent.over )
       => /\ Snapshot(game) = lastEvent.before
          /\ Len(moveHistory) = lastEvent.lenBefore
          /\ gameOver

NoComputerMoveWitness ==
    /\ lastEvent.op = "idle"
    /\ lastEvent.turn = "black"
    /\ ~lastEvent.over
    /\ isInCheckmate(Board(game), "black")

\* the pieces of the board that are not kings
NonKings == {i \in 1..Len(pieces) : pieces[i].type # "king"}

InsufficientMaterialEndsGame ==
    ( /\ lastEvent.op \in {"move", "computer"}
      /\ hasInsufficientMaterial(Board(game)) )
    => gameOver

\* the moves of the color with isValidMove true and wouldMoveLeaveKingInCheck
\* false, as (piece, target)
LegalMoves(b, color) ==
    {m \in [piece : 1..Len(b.pieces), targetPosition : Squares] :
        /\ b.pieces[m.piece].color = color
        /\ isValidMove(b.pieces[m.piece], m.targetPosition, b)
        /\ ~wouldMoveLeaveKingInCheck(b, m.piece, m.targetPosition)}

\* C21: in the starting position initializePieces has just created, white has
\* exactly 20 moves with isValidMove true and wouldMoveLeaveKingInCheck false:
\* the 8 single and the 8 double steps of the pawns and 4 knight moves.
StartingPositionHasTwentyMoves ==
    (lastEvent.op \in {"new", "reset"} /\ pending = <<>>)
    => LET b == Board(game)
           legal == LegalMoves(b, "white")
           Step(m) == b.pieces[m.piece].position.y - m.targetPosition.y
           pawns == {m \in legal : b.pieces[m.piece].type = "pawn"}
       IN  /\ Cardinality(legal) = 20
           /\ Cardinality({m \in pawns : Step(m) = 1
                              /\ m.targetPosition.x = b.pieces[m.piece].position.x}) = 8
           /\ Cardinality({m \in pawns : Step(m) = 2
                              /\ m.targetPosition.x = b.pieces[m.piece].position.x}) = 8
           /\ Cardinality({m \in legal : b.pieces[m.piece].type = "knight"}) = 4

\* the origin and the target of every entry of moveHistory, oldest first
PlayedMoves ==
    [k \in 1..Len(moveHistory) |->
        <<moveHistory[k].fromPosition, moveHistory[k].toPosition>>]

\* 1.e4 e5 2.Qh5 Nc6 3.Qxf7 is the game played and its last move was the last
\* thing to happen
QueenRaidPlayed ==
    /\ lastEvent.op = "move"
    /\ pending = <<>>
    /\ PlayedMoves = << <<Sq(4, 6), Sq(4, 4)>>, <<Sq(4, 1), Sq(4, 3)>>,
                        <<Sq(3, 7), Sq(7, 3)>>, <<Sq(1, 0), Sq(2, 2)>>,
                        <<Sq(7, 3), Sq(5, 1)>> >>

\* C22: after 1.e4 e5 2.Qh5 Nc6 3.Qxf7+ from the starting position the black
\* king is in check, black is not checkmated and has a legal reply, and the
\* game is not over.
QueenRaidIsCheckNotMate ==
    QueenRaidPlayed
    => /\ isKingInCheck(Board(game), "black")
       /\ ~isInCheckmate(Board(game), "black")
       /\ LegalMoves(Board(game), "black") # {}
       /\ ~gameOver

QueenRaidWitness ==
    /\ QueenRaidPlayed
    /\ currentPlayer = "black"
    /\ \E m \in LegalMoves(Board(game), "black") :
          /\ pieces[m.piece].type = "king"
          /\ m.targetPosition = Sq(5, 1)

\* the targets of the pawn p that the rules of the pawn admit on the board b
PawnTargets(p, b) ==
    LET one == Sq(p.position.x, p.position.y + Forward(p.color))
        two == Sq(p.position.x, p.position.y + 2 * Forward(p.color))
        Empty(s) == ~Occupied(b.pieces, s)
        Enemy(s) == \E k \in 1..Len(b.pieces) :
                        b.pieces[k].position = s /\ b.pieces[k].color # p.color
    IN  {t \in Squares :
            \/ t = one /\ Empty(t)
            \/ /\ t = two /\ ~p.hasMoved /\ p.position.y = StartRank(p.color)
               /\ Empty(one) /\ Empty(t)
            \/ /\ Abs(t.x - p.position.x) = 1 /\ t.y = one.y
               /\ Enemy(t) \/ (Empty(t) /\ t = b.lastEnPassantPosition)}

KingsTaken ==
    {c \in {"white", "black"} :
        /\ lastEvent.op \in {"move", "computer"}
        /\ \E e \in lastEvent.before.placement : e.type = "king" /\ e.color = c
        /\ ~\E k \in 1..Len(pieces) : pieces[k].type = "king" /\ pieces[k].color = c}

\* C24: once a move has taken a king, isKingInCheck and isInCheckmate are
\* false for the color of that king and the game is over.
KingCaptureEndsGame ==
    \A c \in KingsTaken :
        /\ ~isKingInCheck(Board(game), c)
        /\ ~isInCheckmate(Board(game), c)
        /\ gameOver

\* C25: every move that is applied, by a click or by the automated opponent,
\* moves a piece of the color of currentPlayer, appends exactly one entry to
\* moveHistory and hands the turn to the other color; and the color that made
\* the last move makes no other move before an undo or a reset.
TurnsAlternate ==
    [][MoveApplied
       => /\ lastEvent'.color = currentPlayer
          /\ Len(moveHistory') = Len(moveHistory) + 1
          /\ moveHistory'[Len(moveHistory')].previousPlayer = currentPlayer
          /\ currentPlayer' = Opponent(currentPlayer)
          /\ lastEvent.mover # lastEvent'.color]_vars

ComputerRepliesWitness ==
    /\ lastEvent.op = "computer"
    /\ lastEvent.mover = "black"
    /\ Len(moveHistory) >= 2
    /\ moveHistory[Len(moveHistory) - 1].previousPlayer = "white"
    /\ currentPlayer = "white"

\* the pieces on the squares once entry k and the later entries of the
\* history h have been played on the placement pl: each entry takes its
\* captured piece off and puts its piece on toPosition
RECURSIVE ReplayHistory(_, _, _)
ReplayHistory(h, k, pl) ==
    IF k > Len(h) THEN pl
    ELSE LET e == h[k]
             On(pos) == [type |-> e.piece.type, color |-> e.piece.color,
                         position |-> pos]
             taken == IF e.capturedPiece # NoPiece
                      THEN {[type |-> e.capturedPiece.type,
                             color |-> e.capturedPiece.color,
                             position |-> e.capturedPiece.position]}
                      ELSE {}
         IN  ReplayHistory(h, k + 1,
                 ((pl \ {On(e.fromPosition)}) \ taken) \cup {On(e.toPosition)})

StartingPlacement == Placement(RunMicrotasks(NewGame("friend")).pieces)

\* C26: once the restorations of an undo have run, the pieces stand on the
\* squares that replaying the entries left in moveHistory from the starting
\* position gives: every entry an undo has popped has been reversed.
UndoReversesEveryPoppedMove ==
    (lastEvent.op = "undo" /\ lastEvent.undone > 0 /\ pending = <<>>)
    => Placement(pieces) = ReplayHistory(moveHistory, 1, StartingPlacement)

\* C27: the status an undo leaves is that of the position with the captured
\* piece back on the board: when the game is over after an undo, restorations
\* completed, the player to move is checkmated or stalemated.
UndoStatusSeesRestoredPiece ==
    (lastEvent.op = "undo" /\ lastEvent.undone > 0 /\ pending = <<>> /\ gameOver)
    => \/ isInCheckmate(Board(game), currentPlayer)
       \/ isInStalemate(Board(game), currentPlayer)

\* C28: whenever no restoration is pending, the pieces on the board and the
\* entries of capturedPieces are 32 together.
MaterialIsConserved ==
    pending = <<>> => Len(pieces) + Len(capturedPieces) = 32

\* it is the automated opponent's turn in a game that is not over
ComputersTurn ==
    gameMode = "computer" /\ currentPlayer = computerColor /\ ~gameOver

ResetRestoresNewGame ==
    (lastEvent.op = "reset" /\ Len(pending) = 32)
    => /\ RunMicrotasks(game).pieces = RunMicrotasks(NewGame(gameMode)).pieces
       /\ currentPlayer = "white"
       /\ ~gameOver
       /\ moveHistory = <<>>
       /\ capturedPieces = <<>>
       /\ selectedPiece = 0
       /\ lastEnPassantPosition = null

====
